---- MODULE Spec2Model ----
(***************************************************************************)
(* One collection cycle of send_grafana_iot_humidity.py: the orchestrator  *)
(* collect_and_send_metrics, the two fetchers, the smooth-API client       *)
(* ESPSensorReader, the formatter _format_for_otel, and the devices and    *)
(* the collector the cycle talks to over HTTP.                             *)
(*                                                                         *)
(* The program is single-threaded with blocking I/O, so its position pc    *)
(* moves from one HTTP call (or sleep) to the next; every action is the    *)
(* code between two such points.  The smooth-API devices run their         *)
(* averaging task on their own, and other clients may use them too.        *)
(***************************************************************************)
EXTENDS Naturals, Sequences, FiniteSets

\* ------------------------------------------------------------------ bounds
MaxDevices == 2
MaxSensors == 2
\* The formatter on its own: the measurements plus the attributes of an input.
MaxFmtSize == 4

\* ------------------------------------------------------- program constants
\* The only trigger status request_smooth_reading takes as "task started".
ACCEPTED == 202

\* -------------------------------------------------------------- value sets
DeviceTypes == {"legacy_html", "smooth_api", "zigbee"}
Labels == {"top", "bottom"}
Averages == {55}
\* The digits of "Humidity A: ..% Humidity B: ..%" on a legacy page.
HumidityTexts == {<<<<4, 2>>, <<7>>>>, <<<<0, 7>>, <<4, 2>>>>}
Times == {1000, 2000}
DevName == <<"dev1", "dev2", "dev3", "dev4">>

\* Python's None / a value that is there: a sequence of length 0 or 1.
None == <<>>
Some(x) == <<x>>
IsNone(o) == o = <<>>
The(o) == o[1]

RECURSIVE SeqsUpTo(_, _)
SeqsUpTo(S, n) ==
    IF n = 0 THEN {<<>>}
    ELSE LET shorter == SeqsUpTo(S, n - 1)
         IN shorter \cup {Append(s, x) : s \in {t \in shorter : Len(t) = n - 1}, x \in S}

Range(s) == {s[i] : i \in 1..Len(s)}
NoRepeat(s) == Cardinality(Range(s)) = Len(s)

\* ------------------------------------------------------- attribute values
\* A Python value as the formatter's isinstance tests see it: its type and
\* its payload (s for a str, n for a number or a bool, neither otherwise).
AStr(s) == [t |-> "str", s |-> s, n |-> 0]
ANum(t, n) == [t |-> t, s |-> "", n |-> n]

\* {**d, key: val}: the key keeps its place when d has it, else goes last.
RECURSIVE DictSet(_, _, _)
DictSet(d, key, val) ==
    IF d = <<>> THEN <<<<key, val>>>>
    ELSE IF d[1][1] = key THEN <<<<key, val>>>> \o Tail(d)
    ELSE <<d[1]>> \o DictSet(Tail(d), key, val)

\* config.get("common_attributes", {}) of the device at place d of DEVICES.
CommonAttributes(d) == <<<<"device_id", AStr(DevName[d])>>>>

Measurement(value, attributes) == [value |-> value, attributes |-> attributes]

\* float() of a string of decimal digits.
RECURSIVE ParseFloat(_)
ParseFloat(ds) ==
    IF ds = <<>> THEN 0
    ELSE 10 * ParseFloat(SubSeq(ds, 1, Len(ds) - 1)) + ds[Len(ds)]

\* ------------------------------------------------------------- exceptions
\* requests.exceptions: what a failed connection, a timeout or a failed name
\* lookup raises, and what raise_for_status() raises on a 4xx/5xx answer,
\* are all subclasses of RequestException.
TransportErrors == {"ConnectionError", "Timeout", "HTTPError"}
IsRequestException(e) == e \in TransportErrors

\* The except clauses with the one of request_smooth_reading left out.
CatchesNotInReading(site, e) ==
    CASE site = "listing"   -> IsRequestException(e)
      [] site = "legacy"    -> IsRequestException(e)
      [] site = "collector" -> IsRequestException(e)
      [] OTHER              -> FALSE

\* The except clause around each HTTP call site.
Catches(site, e) ==
    CASE site = "listing"   -> IsRequestException(e)
      [] site = "reading"   -> IsRequestException(e)
      [] site = "legacy"    -> IsRequestException(e)
      [] site = "collector" -> IsRequestException(e)
      [] OTHER              -> FALSE

\* -------------------------------------------------------------- formatter
\* isinstance(val, cls): bool is a subclass of int in Python.
IsInstance(val, cls) ==
    CASE cls = "str"   -> val.t = "str"
      [] cls = "int"   -> val.t \in {"int", "bool"}
      [] cls = "float" -> val.t = "float"
      [] cls = "bool"  -> val.t = "bool"
      [] OTHER         -> FALSE

\* One attribute's entry of otel_attributes: none or one typed pair.
OtelAttribute(key, val) ==
    IF IsInstance(val, "str")
      THEN <<[key |-> key, kind |-> "stringValue", value |-> val]>>
    ELSE IF IsInstance(val, "int") \/ IsInstance(val, "float")
      THEN <<[key |-> key, kind |-> "doubleValue", value |-> ANum("float", val.n)]>>
    ELSE IF IsInstance(val, "bool")
      THEN <<[key |-> key, kind |-> "boolValue", value |-> val]>>
    ELSE <<>>

RECURSIVE OtelAttributes(_)
OtelAttributes(attributes) ==
    IF attributes = <<>> THEN <<>>
    ELSE OtelAttribute(attributes[1][1], attributes[1][2])
           \o OtelAttributes(Tail(attributes))

DataPoint(measurement, current_timestamp_nano) ==
    [startTimeUnixNano |-> current_timestamp_nano,
     timeUnixNano      |-> current_timestamp_nano,
     asDouble          |-> measurement.value,
     attributes        |-> OtelAttributes(measurement.attributes)]

\* The formatter reading the clock once per data point instead of once.
FormatForOtelClockPerPoint(metric_name, unit, all_meas, now) ==
    LET otel_data_points ==
          [i \in 1..Len(all_meas) |-> DataPoint(all_meas[i], now + i - 1)]
    IN IF otel_data_points = <<>> THEN None
       ELSE Some([resourceMetrics |-> <<
              [resource |-> [attributes |-> <<[key |-> "service.name",
                                               kind |-> "stringValue",
                                               value |-> AStr("multi-device-plant-monitor")]>>],
               scopeMetrics |-> <<
                 [scope |-> [name |-> "iot-soil-monitoring", version |-> "1.1.0"],
                  metrics |-> <<
                    [name |-> metric_name,
                     unit |-> unit,
                     gauge |-> [dataPoints |-> otel_data_points]]>>]>>]>>])

\* _format_for_otel, with the clock's reading at its second line as `now`.
FormatForOtel(metric_name, unit, all_meas, now) ==
    LET otel_data_points == [i \in 1..Len(all_meas) |-> DataPoint(all_meas[i], now)]
    IN IF otel_data_points = <<>> THEN None
       ELSE Some([resourceMetrics |-> <<
              [resource |-> [attributes |-> <<[key |-> "service.name",
                                               kind |-> "stringValue",
                                               value |-> AStr("multi-device-plant-monitor")]>>],
               scopeMetrics |-> <<
                 [scope |-> [name |-> "iot-soil-monitoring", version |-> "1.1.0"],
                  metrics |-> <<
                    [name |-> metric_name,
                     unit |-> unit,
                     gauge |-> [dataPoints |-> otel_data_points]]>>]>>]>>])

\* ----------------------------------------------------- legacy HTML fetcher
\* re.search(r"Humidity A: (\d+)% Humidity B: (\d+)%", text): the two groups of
\* the first match, or None.  A page's text is modelled by what the pattern
\* finds in it.
ReSearch(text) == text.humidity

\* fetch_from_legacy_html_device for the device at place d, given how the GET
\* of /watering_pumps ends: o.e is the exception requests.get or
\* raise_for_status raises ("none": a 2xx answer with body o.body).  Gives the
\* exception that leaves the function ("none": it returns ret).
FetchFromLegacyHtmlDevice(d, o) ==
    IF o.e # "none"
      THEN [exc |-> IF Catches("legacy", o.e) THEN "none" ELSE o.e, ret |-> <<>>]
    ELSE IF ~o.body.utf8
      \* response.content.decode() of bytes that are not UTF-8
      THEN [exc |-> IF Catches("legacy", "UnicodeDecodeError")
                      THEN "none" ELSE "UnicodeDecodeError",
            ret |-> <<>>]
    ELSE LET found == ReSearch(o.body)
         IN IF IsNone(found) THEN [exc |-> "none", ret |-> <<>>]
            ELSE LET humidity_values == The(found)
                     sensor_ids == <<"Sensor A", "Sensor B">>
                 IN [exc |-> "none",
                     ret |-> [i \in 1..2 |->
                               Measurement(ParseFloat(humidity_values[i]),
                                           DictSet(CommonAttributes(d), "sensor_id",
                                                   AStr(sensor_ids[i])))]]

\* ------------------------------------------------------ smooth-API client
\* ESPSensorReader.get_available_sensors, given how the GET of /api ends:
\* o.data is the decoded JSON of a 2xx answer.
GetAvailableSensors(o) ==
    IF o.e # "none"
      THEN [exc |-> IF Catches("listing", o.e) THEN "none" ELSE o.e, ret |-> <<>>]
    ELSE IF ~o.data.has_key THEN [exc |-> "none", ret |-> <<>>]
    ELSE IF o.data.shape # "objects"
      \* sensor['label'] of a str, or iterating null
      THEN [exc |-> IF Catches("listing", "TypeError") THEN "none" ELSE "TypeError",
            ret |-> <<>>]
    ELSE IF \E i \in 1..Len(o.data.sensors) : IsNone(o.data.sensors[i])
      \* sensor['label'] of an object without that key
      THEN [exc |-> IF Catches("listing", "KeyError") THEN "none" ELSE "KeyError",
            ret |-> <<>>]
    ELSE [exc |-> "none",
          ret |-> [i \in 1..Len(o.data.sensors) |-> The(o.data.sensors[i])]]

\* The status test of line 68 written against 200 instead of 202.
TriggerAcceptedOn200(o) == o.e = "none" /\ o.status_code = 200

\* request_smooth_reading after the trigger POST: carries on to the poll loop
\* only on 202; an exception of the POST ends the call with None.
TriggerAccepted(o) == o.e = "none" /\ o.status_code = ACCEPTED

TriggerRaises(o) == o.e # "none" /\ ~Catches("reading", o.e)

\* The poll loop without the test of smooth_humi_task_running (line 77).
PollRoundIgnoringFlag(o) ==
    IF o.e # "none"
      THEN [exc |-> IF Catches("reading", o.e) THEN "none" ELSE o.e,
            returns |-> TRUE, result |-> None]
      ELSE [exc |-> "none", returns |-> TRUE,
            result |-> o.status.last_smooth_humi_result]

\* One round of the poll loop after its sleep, given how the GET of /api ends:
\* whether the call returns, what it returns, and the exception leaving it.
PollRound(o) ==
    IF o.e # "none"
      THEN [exc |-> IF Catches("reading", o.e) THEN "none" ELSE o.e,
            returns |-> TRUE, result |-> None]
    ELSE IF ~o.status.smooth_humi_task_running
      THEN [exc |-> "none", returns |-> TRUE,
            result |-> o.status.last_smooth_humi_result]
    ELSE [exc |-> "none", returns |-> FALSE, result |-> None]

\* ---------------------------------------------------- smooth-API fetcher
\* The body of the for loop of fetch_from_smooth_api_device for one label,
\* given what request_smooth_reading returned: the measurements after it and
\* the exception leaving the fetcher (float(None) is a TypeError).
HandleResult(d, label, result, meas) ==
    IF ~IsNone(result) /\ The(result).sensor_label = label
      THEN LET value == The(result).average_humidity_percent
           IN IF IsNone(value)
                THEN [exc |-> "TypeError", ms |-> meas]
                ELSE [exc |-> "none",
                      ms |-> Append(meas,
                               Measurement(The(value),
                                           DictSet(CommonAttributes(d), "sensor_id",
                                                   AStr(label))))]
      ELSE [exc |-> "none", ms |-> meas]

\* ------------------------------------------------------------ orchestrator
\* FETCHER_MAP.get(device_type): where the cycle goes for a device.
FetcherFor(device_type) ==
    CASE device_type = "legacy_html" -> "legacy_get"
      [] device_type = "smooth_api"  -> "list_get"
      [] OTHER                       -> "none"

\* all_measurements.extend(measurements)
Extend(all_meas, meas) == all_meas \o meas

\* ------------------------------------------------------------------- state
VARIABLES
    DEVICES,            \* the configured device list: the type tag of each
    slot,               \* the task slot of the smooth-API device being visited
    pc,                 \* where collect_and_send_metrics is
    di,                 \* the place in DEVICES of the device being visited
    sensor_labels,      \* fetch_from_smooth_api_device: the discovered labels
    li,                 \* ... and the place of the label being read
    measurements,       \* ... and its measurements so far
    all_measurements,   \* collect_and_send_metrics: the collected list
    exc,                \* the exception that ended the cycle ("none": none)
    visited,            \* history: the devices the for loop has reached
    outputs,            \* history: what each fetcher call returned
    contacted,          \* history: the devices an HTTP call was made to
    attempted,          \* history: the labels triggered on this device
    results,            \* history: what request_smooth_reading returned
    slept,              \* history: a sleep since the last call of this read
    callfailed,         \* history: the last HTTP call raised a RequestException
    abandoned,          \* history: a status poll of this visit raised one
    posts,              \* history: the POSTs made to the collector
    sent,               \* history: the envelope of the last POST
    fmtIn, fmtNow, fmtOut, fmtPc   \* the formatter applied on its own

cycleVars == <<DEVICES, slot, pc, di, sensor_labels, li, measurements,
               all_measurements, exc, visited, outputs, contacted, attempted,
               results, slept, callfailed, abandoned, posts, sent>>
fmtVars == <<fmtIn, fmtNow, fmtOut, fmtPc>>
vars == <<DEVICES, slot, pc, di, sensor_labels, li, measurements,
          all_measurements, exc, visited, outputs, contacted, attempted,
          results, slept, callfailed, abandoned, posts, sent, fmtIn, fmtNow, fmtOut, fmtPc>>

\* ------------------------------------------------------------ what is sent
\* A finished task's result, as last_smooth_humi_result; by records who
\* started the task: a trigger of this cycle that was answered 202, one whose
\* answer never came, another client, or an earlier cycle.
SmoothResults ==
    [sensor_label : Labels,
     average_humidity_percent : {None} \cup {Some(a) : a \in Averages},
     by : {"client", "unanswered", "other", "stale"}]

StaleResult == [sensor_label |-> "top", average_humidity_percent |-> Some(55),
                by |-> "stale"]

IdleSlot(last) == [running |-> FALSE, task |-> "", by |-> "none",
                   last |-> last]

\* What the cycle may find on a device when it first contacts it: an idle slot
\* with no result or with an earlier cycle's, or another client's task running.
InitialSlots ==
    {IdleSlot(None), IdleSlot(Some(StaleResult)),
     [running |-> TRUE, task |-> "top", by |-> "other", last |-> None]}

NoError(x) == x = "none"

LegacyBodies ==
    [utf8 : BOOLEAN,
     humidity : {None} \cup {Some(h) : h \in HumidityTexts}]
LegacyOutcomes ==
    {[e |-> x, body |-> [utf8 |-> TRUE, humidity |-> None]] : x \in TransportErrors}
      \cup {[e |-> "none", body |-> b] : b \in LegacyBodies}

SensorEntries == {None} \cup {Some(l) : l \in Labels}
ListingData ==
    {[has_key |-> FALSE, shape |-> "objects", sensors |-> <<>>],
     [has_key |-> TRUE, shape |-> "strings", sensors |-> <<>>],
     [has_key |-> TRUE, shape |-> "null", sensors |-> <<>>]}
      \cup {[has_key |-> TRUE, shape |-> "objects", sensors |-> ss] :
              ss \in {t \in SeqsUpTo(SensorEntries, MaxSensors) : NoRepeat(t)}}
ListingOutcomes ==
    {[e |-> x, data |-> [has_key |-> FALSE, shape |-> "objects", sensors |-> <<>>]] :
        x \in TransportErrors}
      \cup {[e |-> "none", data |-> dt] : dt \in ListingData}

\* GET /api as the visited device answers it.
StatusOf(sl) == [smooth_humi_task_running |-> sl.running,
                 last_smooth_humi_result |-> sl.last]

\* ------------------------------------------------------------------- Init
CycleInit ==
    /\ DEVICES \in SeqsUpTo(DeviceTypes, MaxDevices)
    /\ slot = IdleSlot(None)
    /\ pc = "loop"
    /\ di = 1
    /\ sensor_labels = <<>>
    /\ li = 1
    /\ measurements = <<>>
    /\ all_measurements = <<>>
    /\ exc = "none"
    /\ visited = <<>>
    /\ outputs = <<>>
    /\ contacted = {}
    /\ attempted = <<>>
    /\ results = <<>>
    /\ slept = FALSE
    /\ callfailed = FALSE
    /\ abandoned = FALSE
    /\ posts = 0
    /\ sent = None

FmtIdle ==
    /\ fmtIn = <<>>
    /\ fmtNow = 0
    /\ fmtOut = None
    /\ fmtPc = "off"

Init == CycleInit /\ FmtIdle

\* ---------------------------------------------------------------- actions
\* The cycle ends with exception e.
Raise(e) ==
    /\ pc' = "raised"
    /\ exc' = e

\* The fetcher called for device di returns ret (lines 210-211).
FetcherReturns(ret) ==
    /\ all_measurements' = Extend(all_measurements, ret)
    /\ outputs' = Append(outputs, ret)
    /\ di' = di + 1
    /\ pc' = "loop"

\* The head of the for loop over DEVICES, the dispatch on the type tag, and
\* what follows the loop up to the formatter.
Loop ==
    /\ pc = "loop"
    /\ IF di <= Len(DEVICES)
         THEN /\ visited' = Append(visited, di)
              /\ IF FetcherFor(DEVICES[di]) = "none"
                   THEN /\ di' = di + 1
                        /\ pc' = "loop"
                   ELSE /\ pc' = FetcherFor(DEVICES[di])
                        /\ di' = di
              /\ IF DEVICES[di] = "smooth_api"
                   THEN slot' \in InitialSlots
                   ELSE slot' = IdleSlot(None)
         ELSE /\ pc' = IF all_measurements = <<>> THEN "done" ELSE "send"
              /\ slot' = IdleSlot(None)
              /\ UNCHANGED <<visited, di>>
    /\ measurements' = <<>>
    /\ sensor_labels' = <<>>
    /\ li' = 1
    /\ attempted' = <<>>
    /\ results' = <<>>
    /\ slept' = FALSE
    /\ callfailed' = FALSE
    /\ abandoned' = FALSE
    /\ UNCHANGED <<DEVICES, all_measurements, exc, outputs, contacted, posts, sent>>
    /\ UNCHANGED fmtVars

\* fetch_from_legacy_html_device, whole: one GET.
LegacyGet ==
    /\ pc = "legacy_get"
    /\ \E o \in LegacyOutcomes :
         LET r == FetchFromLegacyHtmlDevice(di, o)
         IN IF NoError(r.exc)
              THEN FetcherReturns(r.ret) /\ UNCHANGED exc
              ELSE Raise(r.exc) /\ UNCHANGED <<all_measurements, outputs, di>>
    /\ contacted' = contacted \cup {di}
    /\ UNCHANGED <<DEVICES, slot, sensor_labels, li, measurements, visited,
                   attempted, results, slept, callfailed, abandoned, posts, sent>>
    /\ UNCHANGED fmtVars

\* fetch_from_smooth_api_device up to its for loop: the listing GET.
ListGet ==
    /\ pc = "list_get"
    /\ \E o \in ListingOutcomes :
         LET r == GetAvailableSensors(o)
         IN /\ callfailed' = IsRequestException(o.e)
            /\ IF ~NoError(r.exc)
                 THEN /\ Raise(r.exc)
                      /\ UNCHANGED <<all_measurements, outputs, di, sensor_labels>>
               ELSE IF r.ret = <<>>
                 THEN /\ FetcherReturns(<<>>)
                      /\ UNCHANGED <<exc, sensor_labels>>
               ELSE /\ sensor_labels' = r.ret
                    /\ pc' = "trigger"
                    /\ UNCHANGED <<all_measurements, outputs, di, exc>>
    /\ contacted' = contacted \cup {di}
    /\ UNCHANGED <<DEVICES, slot, li, measurements, visited, attempted, results,
                   slept, abandoned, posts, sent>>
    /\ UNCHANGED fmtVars

\* request_smooth_reading has returned result for sensor_labels[li]: the rest
\* of the loop body, and the fetcher's return after the last label.
AfterReading(result) ==
    LET r == HandleResult(di, sensor_labels[li], result, measurements)
    IN /\ results' = Append(results, result)
       /\ IF ~NoError(r.exc)
            THEN /\ Raise(r.exc)
                 /\ UNCHANGED <<all_measurements, outputs, di, li, measurements>>
          ELSE IF li < Len(sensor_labels)
            THEN /\ li' = li + 1
                 /\ measurements' = r.ms
                 /\ pc' = "trigger"
                 /\ UNCHANGED <<all_measurements, outputs, di, exc>>
          ELSE /\ FetcherReturns(r.ms)
               /\ measurements' = r.ms
               /\ UNCHANGED <<li, exc>>

\* The device's side of POST /api/smooth_humi/read: 503 while a task runs,
\* 400 for a label it does not know, else 202 and the task starts.
DeviceRead(sl, label, known, by) ==
    IF sl.running THEN [status_code |-> 503, slot |-> sl]
    ELSE IF ~known THEN [status_code |-> 400, slot |-> sl]
    ELSE [status_code |-> 202,
          slot |-> [running |-> TRUE, task |-> label, by |-> by,
                    last |-> sl.last]]

\* request_smooth_reading for sensor_labels[li]: the trigger POST.
Trigger ==
    /\ pc = "trigger"
    /\ attempted' = Append(attempted, sensor_labels[li])
    /\ contacted' = contacted \cup {di}
    /\ slept' = FALSE
    /\ \/ \E e \in {"ConnectionError", "Timeout"}, reached \in BOOLEAN :
            \* no answer came back; the request may still have reached the device
            /\ callfailed' = TRUE
            /\ slot' = IF reached
                         THEN DeviceRead(slot, sensor_labels[li], TRUE, "unanswered").slot
                         ELSE slot
            /\ IF TriggerRaises([e |-> e, status_code |-> 0])
                 THEN /\ Raise(e)
                      /\ UNCHANGED <<all_measurements, outputs, di, li,
                                     measurements, results>>
                 ELSE AfterReading(None)
       \/ \E known \in BOOLEAN :
            LET a == DeviceRead(slot, sensor_labels[li], known, "client")
            IN /\ callfailed' = FALSE
               /\ slot' = a.slot
               /\ IF TriggerAccepted([e |-> "none", status_code |-> a.status_code])
                    THEN /\ pc' = "sleep"
                         /\ UNCHANGED <<all_measurements, outputs, di, li,
                                        measurements, results, exc>>
                    ELSE AfterReading(None)
    /\ UNCHANGED <<DEVICES, sensor_labels, visited, abandoned, posts, sent>>
    /\ UNCHANGED fmtVars

\* time.sleep(POLL_INTERVAL_SECONDS) at the head of the poll loop.
Sleep ==
    /\ pc = "sleep"
    /\ pc' = "poll"
    /\ slept' = TRUE
    /\ UNCHANGED <<DEVICES, slot, di, sensor_labels, li, measurements,
                   all_measurements, exc, visited, outputs, contacted, attempted,
                   results, callfailed, abandoned, posts, sent>>
    /\ UNCHANGED fmtVars

PollOutcomes ==
    {[e |-> x, status |-> StatusOf(slot)] : x \in TransportErrors \cup {"none"}}

\* The status GET of the poll loop and what follows it up to the next call.
Poll ==
    /\ pc = "poll"
    /\ \E o \in PollOutcomes :
         LET r == PollRound(o)
         IN /\ callfailed' = IsRequestException(o.e)
            /\ abandoned' = (abandoned \/ IsRequestException(o.e))
            /\ IF ~NoError(r.exc)
                 THEN /\ Raise(r.exc)
                      /\ UNCHANGED <<all_measurements, outputs, di, li,
                                     measurements, results>>
               ELSE IF r.returns
                 THEN AfterReading(r.result)
               ELSE /\ pc' = "sleep"
                    /\ UNCHANGED <<all_measurements, outputs, di, li,
                                   measurements, results, exc>>
    /\ contacted' = contacted \cup {di}
    /\ slept' = FALSE
    /\ UNCHANGED <<DEVICES, slot, sensor_labels, visited, attempted, posts, sent>>
    /\ UNCHANGED fmtVars

\* Lines 219-240: the formatter, then the one POST to the collector.
Send ==
    /\ pc = "send"
    /\ \E now \in Times :
         LET otel_message == FormatForOtel("soil_moisture_percentage", "%",
                                           all_measurements, now)
         IN IF IsNone(otel_message)
              THEN /\ pc' = "done"
                   /\ UNCHANGED <<posts, sent, exc, callfailed>>
              ELSE /\ posts' = posts + 1
                   /\ sent' = otel_message
                   /\ \E e \in TransportErrors \cup {"none"} :
                        /\ callfailed' = IsRequestException(e)
                        /\ IF e # "none" /\ ~Catches("collector", e)
                             THEN Raise(e)
                             ELSE pc' = "done" /\ UNCHANGED exc
    /\ UNCHANGED <<DEVICES, slot, di, sensor_labels, li, measurements,
                   all_measurements, visited, outputs, contacted, attempted,
                   results, slept, abandoned>>
    /\ UNCHANGED fmtVars

\* ------------------------------------------------------------ the devices
\* The cycle sees a device only through the calls of its own visit, so the
\* device's steps are followed from the first trigger of the visit to its end;
\* InitialSlots stands for what the device did before.
Observed == pc \in {"trigger", "sleep", "poll"}

\* The device's averaging task ends and leaves its result.
TaskFinish ==
    /\ Observed
    /\ slot.running
    /\ \E avg \in {None} \cup {Some(a) : a \in Averages} :
         slot' = IdleSlot(Some([sensor_label |-> slot.task,
                                average_humidity_percent |-> avg,
                                by |-> slot.by]))
    /\ UNCHANGED <<DEVICES, pc, di, sensor_labels, li, measurements,
                   all_measurements, exc, visited, outputs, contacted, attempted,
                   results, slept, callfailed, abandoned, posts, sent>>
    /\ UNCHANGED fmtVars

\* Another client of the device starts a task on it.
OtherClient ==
    /\ Observed
    /\ \E l \in Labels :
         LET a == DeviceRead(slot, l, TRUE, "other")
         IN /\ a.status_code = 202
            /\ slot' = a.slot
    /\ UNCHANGED <<DEVICES, pc, di, sensor_labels, li, measurements,
                   all_measurements, exc, visited, outputs, contacted, attempted,
                   results, slept, callfailed, abandoned, posts, sent>>
    /\ UNCHANGED fmtVars

Device == TaskFinish \/ OtherClient

Cycle == Loop \/ LegacyGet \/ ListGet \/ Trigger \/ Sleep \/ Poll \/ Send

Next == Cycle \/ Device

Spec == Init /\ [][Next]_vars

\* ------------------------------------------------- the formatter on its own
\* _format_for_otel applied to any list of measurements, whatever the types
\* of their attribute values.
AttrKeys == <<"device_id", "sensor_id", "location", "soil_type", "depth">>
AttrValues ==
    {AStr("balcony"), ANum("int", 3), ANum("float", 3), ANum("bool", 1),
     [t |-> "NoneType", s |-> "", n |-> 0]}
FmtValues == {7, 55}

\* The attribute mappings of k keys.
RECURSIVE AttrMaps(_)
AttrMaps(k) ==
    IF k = 0 THEN {<<>>}
    ELSE {Append(m, <<AttrKeys[k], v>>) : m \in AttrMaps(k - 1), v \in AttrValues}

\* The measurement lists of size at most n.
RECURSIVE FmtInputs(_)
FmtInputs(n) ==
    {<<>>} \cup UNION {
        {<<Measurement(v, a)>> \o rest :
            v \in FmtValues, a \in AttrMaps(k), rest \in FmtInputs(n - 1 - k)} :
        k \in 0..(n - 1)}

FmtInit ==
    /\ DEVICES = <<>>
    /\ slot = IdleSlot(None)
    /\ pc = "done"
    /\ di = 1
    /\ sensor_labels = <<>>
    /\ li = 1
    /\ measurements = <<>>
    /\ all_measurements = <<>>
    /\ exc = "none"
    /\ visited = <<>>
    /\ outputs = <<>>
    /\ contacted = {}
    /\ attempted = <<>>
    /\ results = <<>>
    /\ slept = FALSE
    /\ callfailed = FALSE
    /\ abandoned = FALSE
    /\ posts = 0
    /\ sent = None
    /\ fmtIn \in FmtInputs(MaxFmtSize)
    /\ fmtNow \in Times
    /\ fmtOut = None
    /\ fmtPc = "ready"

Format ==
    /\ fmtPc = "ready"
    /\ fmtOut' = FormatForOtel("soil_moisture_percentage", "%", fmtIn, fmtNow)
    /\ fmtPc' = "done"
    /\ UNCHANGED <<fmtIn, fmtNow>>
    /\ UNCHANGED cycleVars

FmtNext == Format

SpecFmt == FmtInit /\ [][FmtNext]_vars

\* ================================================================== claims
CycleOver == pc \in {"done", "raised"}
ParseErrors == {"KeyError", "TypeError", "UnicodeDecodeError"}

\* C1: a transport failure (connection error, timeout, non-2xx status) of any
\* HTTP call of the cycle is never propagated: no RequestException ever leaves
\* collect_and_send_metrics, and the step in which a call fails that way never
\* ends the cycle with an exception; it leaves the collected measurements as
\* they were and the cycle goes on (to the next sensor, the next device, or to
\* its normal end).
C1_TransportFailureNeverPropagated ==
    /\ exc \notin TransportErrors
    /\ pc = "raised" => exc \in ParseErrors
    /\ callfailed => /\ pc \in {"loop", "trigger", "done"}
                     /\ exc = "none"
                     /\ pc = "loop" => outputs[Len(outputs)] = measurements
                     /\ pc = "trigger" => results[Len(results)] = None

\* C1 witness: a status poll failed, the cycle went on to the next sensor of
\* the same device, and an earlier device's measurements are still collected.
C1_Witness_PollFailedCycleGoesOn ==
    /\ callfailed
    /\ abandoned
    /\ pc = "trigger"
    /\ li = 2
    /\ all_measurements # <<>>

\* C2: a parse failure is treated like a transport failure: a 2xx answer whose
\* body lacks an expected field (an enabled_sensors entry without 'label',
\* enabled_sensors that is no list of objects, a matching result without
\* average_humidity_percent) raises nothing, so neither a KeyError nor a
\* TypeError ever ends the cycle.
C2_ParseFailureRaisesNothing == exc \notin {"KeyError", "TypeError"}

\* The visited device runs a task that a trigger of this cycle, answered 202,
\* started.
OwnTaskRunning == slot.running /\ slot.by = "client"

\* The step that issues the trigger POST for the next label.
TriggerStep == pc = "trigger" /\ attempted' # attempted

\* C3 as claimed: in every execution, failed status polls included, a trigger
\* POST is issued only when the task started by the client's previous accepted
\* trigger is no longer running.
C3_NeverTriggersWhileOwnTaskRuns ==
    [][TriggerStep => ~OwnTaskRunning]_vars

\* C3 as amended: as long as no status poll of the visit has failed, a trigger
\* POST is issued only when the task started by the previous trigger answered
\* 202 is no longer running.  After a failed status poll the wait is given up
\* and a trigger may meet the client's own running task: the device then
\* leaves its slot as it is and the read returns no result.
C3_SequentialUnlessPollFailed ==
    [][TriggerStep /\ OwnTaskRunning
         => /\ abandoned
            /\ slot' = slot
            /\ results' = Append(results, None)]_vars

\* C3 witness: the second sensor's trigger has been issued after the first
\* sensor's accepted task was awaited to its end, no poll having failed.
C3_Witness_SecondTriggerAfterAwaitedTask ==
    /\ Len(attempted) = 2
    /\ ~abandoned
    /\ Len(results) >= 1
    /\ results[1] # None
    /\ The(results[1]).by = "client"

\* The status GET of the poll loop, as a step.
PollStep == pc = "poll" /\ slept /\ ~slept'
Polling == pc \in {"sleep", "poll"}

\* The program runs on (each call returns or times out), and a task that runs
\* on a device comes to its end.
FairSpec == Spec /\ WF_vars(Cycle) /\ WF_vars(TaskFinish)

\* C4: after a 202 the read sleeps before every status GET; a poll that
\* succeeds and reports the task running never returns but sleeps again, the
\* first one that reports it not running returns that status's
\* last_smooth_humi_result; the loop has no bound, and once no other client
\* restarts the slot the flag clears and the read returns.
C4_PollLoop ==
    /\ [](pc = "poll" => slept)
    /\ [][PollStep =>
            IF callfailed' THEN results' = Append(results, None)
            ELSE IF slot.running THEN pc' = "sleep" /\ results' = results
            ELSE results' = Append(results, slot.last)]_vars
    /\ (<>[][~OtherClient]_vars) => (Polling ~> ~Polling)

\* C4 witness: a read returned the result its poll found with the task no
\* longer running, and the fetcher made a measurement of it.
C4_Witness_PollReturnedResult ==
    /\ pc = "loop"
    /\ ~callfailed
    /\ Len(results) = 1
    /\ results[1] # None
    /\ The(results[1]).by = "client"
    /\ outputs[Len(outputs)] # <<>>

\* The places in DEVICES of the devices that have a fetcher, in list order.
Recognized ==
    SelectSeq([d \in 1..Len(DEVICES) |-> d],
              LAMBDA d : FetcherFor(DEVICES[d]) # "none")

RECURSIVE Flatten(_)
Flatten(ss) == IF ss = <<>> THEN <<>> ELSE ss[1] \o Flatten(Tail(ss))

\* The reads of this visit that returned a result echoing the requested label.
Hits ==
    SelectSeq([i \in 1..Len(results) |-> i],
              LAMBDA i : /\ results[i] # None
                         /\ The(results[i]).sensor_label = sensor_labels[i])

\* C5: for a listing s1..sn the smooth-API fetcher attempts a read for every
\* si in listing order, whatever the earlier reads gave, and its measurements
\* are exactly, in order, one per read whose result is present and echoes the
\* requested label, with value average_humidity_percent and sensor_id the
\* label; an empty listing gives no trigger and no measurement.
C5_SmoothFetcherOutput ==
    /\ Len(attempted) <= Len(sensor_labels)
    /\ attempted = SubSeq(sensor_labels, 1, Len(attempted))
    /\ sensor_labels # <<>> /\ pc \in {"loop", "raised"}
         => attempted = sensor_labels
    /\ sensor_labels # <<>> =>
         /\ Len(measurements) = Len(Hits)
         /\ \A k \in 1..Len(measurements) :
              /\ k <= Len(Hits)
              /\ Some(measurements[k].value)
                   = The(results[Hits[k]]).average_humidity_percent
              /\ <<"sensor_id", AStr(sensor_labels[Hits[k]])>>
                   \in Range(measurements[k].attributes)

\* C6: the orchestrator visits every device of the list exactly once in list
\* order, makes no HTTP call to a device whose type tag has no fetcher, and
\* the collected list is the concatenation, in device order, of what the
\* fetchers of the recognized devices returned.
C6_EveryDeviceVisitedOnceInOrder ==
    /\ visited = [i \in 1..Len(visited) |-> i]
    /\ \A d \in contacted : FetcherFor(DEVICES[d]) # "none"
    /\ all_measurements = Flatten(outputs)
    /\ Len(outputs) <= Len(Recognized)
    /\ CycleOver => /\ Len(visited) = Len(DEVICES)
                    /\ Len(outputs) = Len(Recognized)

\* C7: the cycle posts to the collector if and only if it collected at least
\* one measurement, at most once, only after every device has been visited.
C7_OnePostIffMeasurementsCollected ==
    /\ posts <= 1
    /\ posts = 1 => Len(visited) = Len(DEVICES) /\ di > Len(DEVICES)
    /\ CycleOver => (posts = 1 <=> all_measurements # <<>>)

\* The data points of an envelope.
PointsOf(envelope) ==
    envelope.resourceMetrics[1].scopeMetrics[1].metrics[1].gauge.dataPoints

\* C8: _format_for_otel returns None exactly for the empty list; otherwise
\* the envelope has one resource, one scope and one gauge metric with one
\* data point per measurement, in input order, asDouble the measurement's
\* value, and all points carry one timestamp, start equal to capture time.
C8_OneEnvelopeOnePointPerMeasurement ==
    fmtPc = "done" =>
      /\ IsNone(fmtOut) <=> fmtIn = <<>>
      /\ ~IsNone(fmtOut) =>
           LET envelope == The(fmtOut)
           IN /\ Len(envelope.resourceMetrics) = 1
              /\ Len(envelope.resourceMetrics[1].scopeMetrics) = 1
              /\ Len(envelope.resourceMetrics[1].scopeMetrics[1].metrics) = 1
              /\ Len(PointsOf(envelope)) = Len(fmtIn)
              /\ \A i \in 1..Len(fmtIn) :
                   /\ PointsOf(envelope)[i].asDouble = fmtIn[i].value
                   /\ PointsOf(envelope)[i].startTimeUnixNano
                        = PointsOf(envelope)[i].timeUnixNano
                   /\ PointsOf(envelope)[i].timeUnixNano
                        = PointsOf(envelope)[1].timeUnixNano

\* C8 witness: a batch of two measurements with different values formatted.
C8_Witness_TwoPointsFormatted ==
    /\ fmtPc = "done"
    /\ Len(fmtIn) = 2
    /\ fmtIn[1].value # fmtIn[2].value
    /\ ~IsNone(fmtOut)
    /\ Len(PointsOf(The(fmtOut))) = 2

\* The typed pairs the claim gives an attribute mapping: a str a string pair,
\* an int or a float a double pair, a bool a boolean pair, anything else none.
RECURSIVE ClaimedAttributes(_)
ClaimedAttributes(attributes) ==
    IF attributes = <<>> THEN <<>>
    ELSE LET key == attributes[1][1]
             val == attributes[1][2]
         IN (CASE val.t = "str" ->
                    <<[key |-> key, kind |-> "stringValue", value |-> val]>>
               [] val.t \in {"int", "float"} ->
                    <<[key |-> key, kind |-> "doubleValue",
                       value |-> ANum("float", val.n)]>>
               [] val.t = "bool" ->
                    <<[key |-> key, kind |-> "boolValue", value |-> val]>>
               [] OTHER -> <<>>)
            \o ClaimedAttributes(Tail(attributes))

\* C9: every attribute becomes at most one typed pair, in attribute order: a
\* string a string-typed pair, a number a double-typed pair, a boolean a
\* boolean-typed pair, and a value of any other shape is dropped.
C9_AttributesTypedByValue ==
    fmtPc = "done" /\ ~IsNone(fmtOut) =>
      \A i \in 1..Len(fmtIn) :
        PointsOf(The(fmtOut))[i].attributes = ClaimedAttributes(fmtIn[i].attributes)

\* C10: fetch_from_legacy_html_device never raises and returns either no
\* measurement or exactly two, the first with sensor_id 'Sensor A' and the
\* second with 'Sensor B', each with the device's common attributes.
C10_LegacyZeroOrTwoNeverRaises ==
    /\ pc = "raised" => DEVICES[di] # "legacy_html"
    /\ \A k \in 1..Len(outputs) :
         DEVICES[Recognized[k]] = "legacy_html" =>
           \/ outputs[k] = <<>>
           \/ /\ Len(outputs[k]) = 2
              /\ \E h \in HumidityTexts :
                   /\ outputs[k][1].value = ParseFloat(h[1])
                   /\ outputs[k][2].value = ParseFloat(h[2])
              /\ outputs[k][1].attributes
                   = CommonAttributes(Recognized[k]) \o <<<<"sensor_id", AStr("Sensor A")>>>>
              /\ outputs[k][2].attributes
                   = CommonAttributes(Recognized[k]) \o <<<<"sensor_id", AStr("Sensor B")>>>>


\* The reads of this visit of which the fetcher made a measurement: the result
\* is present, echoes the requested label and carries an average.
Emitted ==
    SelectSeq(Hits,
              LAMBDA i : The(results[i]).average_humidity_percent # None)

\* C11: every measurement emitted for a label carries the average computed by
\* the task that this cycle's accepted trigger for that label started, for any
\* interleaving of the device's task starts and ends with the client's polls:
\* no result of any other task is emitted as the reading of the request.
C11_EmittedResultIsOfOwnTask ==
    \A k \in 1..Len(Emitted) : The(results[Emitted[k]]).by = "client"

\* What holds of the freshness of a reading: a result left on the device by
\* an earlier cycle, by the task of an earlier sensor, or by a task whose
\* trigger or polling was given up after an error, is never emitted; a
\* 202 sets the running flag before any later status GET, and the end of the
\* task replaces last_smooth_humi_result.
EarlierTaskResultNeverEmitted ==
    \A k \in 1..Len(Emitted) :
        The(results[Emitted[k]]).by \in {"client", "other"}

\* The case of EarlierTaskResultNeverEmitted: the device held an earlier
\* cycle's result for the label when the trigger was accepted, and the read
\* emitted the new task's result.
StaleResultSuperseded ==
    /\ Len(Emitted) >= 1
    /\ sensor_labels[Emitted[1]] = StaleResult.sensor_label
    /\ The(results[Emitted[1]]).by = "client"

====
